---- MODULE Spec2Model ----
(***************************************************************************)
(* A model of wp_claude_monitor/monitor.py: the change detector, the       *)
(* traffic-trend classifier, the prompt builder and the orchestrator       *)
(* run_monitor with its on-disk state file.                                *)
(***************************************************************************)
EXTENDS Integers, Sequences, FiniteSets, TLC

VARIABLES
    series,      \* analyze_traffic_series: the argument
    analysis,    \* analyze_traffic_series: the returned dict, or "none"
    tpc,         \* position of the call of analyze_traffic_series
    d_previous_state,  \* detect_changes: the argument previous_state
    d_posts,           \* detect_changes: the argument posts
    d_changes,         \* detect_changes: the returned list
    dpc,               \* position of the call of detect_changes
    b_changes,         \* build_prompt: the argument changes
    b_metrics,         \* build_prompt: the argument metrics
    b_prompt,          \* build_prompt: the returned text
    bpc,               \* position of the call of build_prompt
    state_file,        \* the state file: whether it exists, and its JSON text
    pc,                \* position of run_monitor
    use_claude,        \* run_monitor: the argument use_claude
    api_key,           \* run_monitor: the argument api_key
    previous_state,    \* run_monitor: the local previous_state
    posts,             \* run_monitor: the local posts
    metrics,           \* run_monitor: the local metrics
    changes,           \* run_monitor: the local changes
    prompt,            \* run_monitor: the local prompt
    summary,           \* run_monitor: the local summary
    outcome,           \* how the run ended: "returned" or the error raised
    summarizer_calls,  \* calls of the summarizer in this run
    writes,            \* calls of save_state in this run
    last_run           \* the run before this one: whether it saved, and its posts

tvars == <<series, analysis, tpc>>
dvars == <<d_previous_state, d_posts, d_changes, dpc>>
bvars == <<b_changes, b_metrics, b_prompt, bpc>>
rvars == <<state_file, pc, use_claude, api_key, previous_state, posts, metrics,
           changes, prompt, summary, outcome, summarizer_calls, writes, last_run>>
vars == <<tvars, dvars, bvars, rvars>>

(***************************************************************************)
(* Natural numbers of arbitrary size, as little-endian sequences of limbs. *)
(* They carry the 53-bit significands of Python's float (IEEE-754 binary64)*)
(***************************************************************************)
LimbBase == 2 ^ 15

RECURSIVE BNNorm(_)
BNNorm(a) ==
    IF a = <<>> THEN <<>>
    ELSE IF a[Len(a)] = 0 THEN BNNorm(SubSeq(a, 1, Len(a) - 1))
    ELSE a

RECURSIVE BNFromInt(_)
BNFromInt(n) ==
    IF n = 0 THEN <<>> ELSE <<n % LimbBase>> \o BNFromInt(n \div LimbBase)

RECURSIVE BNToInt(_)
BNToInt(a) ==
    IF a = <<>> THEN 0 ELSE Head(a) + LimbBase * BNToInt(Tail(a))

RECURSIVE BNCmpFrom(_, _, _)
BNCmpFrom(a, b, i) ==
    IF i = 0 THEN 0
    ELSE IF a[i] > b[i] THEN 1
    ELSE IF a[i] < b[i] THEN -1
    ELSE BNCmpFrom(a, b, i - 1)

BNCmp(a, b) ==
    IF Len(a) > Len(b) THEN 1
    ELSE IF Len(a) < Len(b) THEN -1
    ELSE BNCmpFrom(a, b, Len(a))

RECURSIVE BNAddC(_, _, _)
BNAddC(a, b, c) ==
    IF a = <<>> /\ b = <<>> THEN (IF c = 0 THEN <<>> ELSE <<c>>)
    ELSE LET x == IF a = <<>> THEN 0 ELSE Head(a)
             y == IF b = <<>> THEN 0 ELSE Head(b)
             s == x + y + c
         IN  <<s % LimbBase>>
             \o BNAddC(IF a = <<>> THEN <<>> ELSE Tail(a),
                       IF b = <<>> THEN <<>> ELSE Tail(b),
                       s \div LimbBase)

BNAdd(a, b) == BNAddC(a, b, 0)

RECURSIVE BNSubB(_, _, _)
BNSubB(a, b, c) ==
    IF a = <<>> THEN <<>>
    ELSE LET y == IF b = <<>> THEN 0 ELSE Head(b)
             d == Head(a) - y - c
         IN  <<d % LimbBase>>
             \o BNSubB(Tail(a), IF b = <<>> THEN <<>> ELSE Tail(b),
                       IF d < 0 THEN 1 ELSE 0)

\* a - b for a >= b
BNSub(a, b) == BNNorm(BNSubB(a, b, 0))

RECURSIVE BNMulSmallC(_, _, _)
BNMulSmallC(a, k, c) ==
    IF a = <<>> THEN (IF c = 0 THEN <<>> ELSE <<c>>)
    ELSE LET p == Head(a) * k + c
         IN  <<p % LimbBase>> \o BNMulSmallC(Tail(a), k, p \div LimbBase)

\* a * k for 0 <= k < LimbBase
BNMulSmall(a, k) == BNNorm(BNMulSmallC(a, k, 0))

RECURSIVE BNMul(_, _)
BNMul(a, b) ==
    IF a = <<>> \/ b = <<>> THEN <<>>
    ELSE BNNorm(BNAdd(BNMulSmall(a, Head(b)), <<0>> \o BNMul(a, Tail(b))))

RECURSIVE IntBitLen(_)
IntBitLen(n) == IF n = 0 THEN 0 ELSE 1 + IntBitLen(n \div 2)

LimbBits == IntBitLen(LimbBase) - 1

BNBitLen(a) ==
    IF a = <<>> THEN 0 ELSE (Len(a) - 1) * LimbBits + IntBitLen(a[Len(a)])

Zeros(n) == [i \in 1..n |-> 0]

\* a * 2^k
BNShl(a, k) ==
    IF a = <<>> THEN <<>>
    ELSE Zeros(k \div LimbBits) \o BNMulSmall(a, 2 ^ (k % LimbBits))

RECURSIVE BNDivSmallR(_, _, _)
BNDivSmallR(a, k, r) ==
    IF a = <<>> THEN <<>>
    ELSE LET x == r * LimbBase + a[Len(a)]
         IN  BNDivSmallR(SubSeq(a, 1, Len(a) - 1), k, x % k) \o <<x \div k>>

\* floor(a / 2^k)
BNShr(a, k) ==
    IF k \div LimbBits >= Len(a) THEN <<>>
    ELSE BNNorm(BNDivSmallR(SubSeq(a, k \div LimbBits + 1, Len(a)),
                            2 ^ (k % LimbBits), 0))

BNIsOdd(a) == a # <<>> /\ a[1] % 2 = 1

\* Binary long division, n bits at a time: <<floor(r * 2^n / b), remainder>>
\* for r < b and n <= LimbBits, with q the quotient bits produced so far.
RECURSIVE BNDivBits(_, _, _, _)
BNDivBits(r, q, b, n) ==
    IF n = 0 THEN <<q, r>>
    ELSE LET r2 == BNShl(r, 1)
         IN  IF BNCmp(r2, b) >= 0
             THEN BNDivBits(BNSub(r2, b), 2 * q + 1, b, n - 1)
             ELSE BNDivBits(r2, 2 * q, b, n - 1)

\* <<floor(r * LimbBase^k / b), remainder>> for r < b, the quotient as k limbs
RECURSIVE BNDivLimbs(_, _, _)
BNDivLimbs(r, b, k) ==
    IF k = 0 THEN <<<<>>, r>>
    ELSE LET d    == BNDivBits(r, 0, b, LimbBits)
             rest == BNDivLimbs(d[2], b, k - 1)
         IN  <<rest[1] \o <<d[1]>>, rest[2]>>

(***************************************************************************)
(* Python floats: sign * m * 2^e with m a MantBits-bit significand, or 0.  *)
(* Every operation rounds its exact result to nearest, ties to even.       *)
(* The values of this program stay far from overflow and subnormals.       *)
(***************************************************************************)
MantBits == 53
FracLimbs == (MantBits + LimbBits) \div LimbBits

FZero == [sign |-> 1, m |-> <<>>, e |-> 0]

FIsZero(x) == x.m = <<>>

\* Round sign * (N + f) * 2^e, where 0 <= f < 1 and f > 0 iff sticky.
FRound(sign, N, e, sticky) ==
    IF N = <<>> THEN FZero
    ELSE LET L == BNBitLen(N)
         IN  IF L <= MantBits
             THEN [sign |-> sign, m |-> BNShl(N, MantBits - L), e |-> e - (MantBits - L)]
             ELSE LET k    == L - MantBits
                      q    == BNShr(N, k)
                      rem  == BNSub(N, BNShl(q, k))
                      half == BNShl(<<1>>, k - 1)
                      c    == BNCmp(rem, half)
                      up   == c > 0 \/ (c = 0 /\ (sticky \/ BNIsOdd(q)))
                      m1   == IF up THEN BNAdd(q, <<1>>) ELSE q
                  IN  IF BNBitLen(m1) > MantBits
                      THEN [sign |-> sign, m |-> BNShr(m1, 1), e |-> e + k + 1]
                      ELSE [sign |-> sign, m |-> m1, e |-> e + k]

\* float(n) for an int n
FFromInt(n) ==
    FRound(IF n < 0 THEN -1 ELSE 1, BNFromInt(IF n < 0 THEN -n ELSE n), 0, FALSE)

Min(a, b) == IF a <= b THEN a ELSE b

\* x - y
FSub(x, y) ==
    IF FIsZero(y) THEN x
    ELSE IF FIsZero(x) THEN [y EXCEPT !.sign = -y.sign]
    ELSE LET e  == Min(x.e, y.e)
             Nx == BNShl(x.m, x.e - e)
             Ny == BNShl(y.m, y.e - e)
         IN  IF x.sign # y.sign
             THEN FRound(x.sign, BNAdd(Nx, Ny), e, FALSE)
             ELSE IF BNCmp(Nx, Ny) >= 0
             THEN FRound(x.sign, BNSub(Nx, Ny), e, FALSE)
             ELSE FRound(-x.sign, BNSub(Ny, Nx), e, FALSE)

\* x / y for y # 0
FDiv(x, y) ==
    IF FIsZero(x) THEN FZero
    ELSE LET ge == BNCmp(x.m, y.m) >= 0
             qr == BNDivLimbs(IF ge THEN BNSub(x.m, y.m) ELSE x.m, y.m, FracLimbs)
         IN  FRound(x.sign * y.sign, BNNorm(qr[1] \o <<IF ge THEN 1 ELSE 0>>),
                    x.e - y.e - FracLimbs * LimbBits, qr[2] # <<>>)

\* x * y
FMul(x, y) ==
    IF FIsZero(x) \/ FIsZero(y) THEN FZero
    ELSE FRound(x.sign * y.sign, BNMul(x.m, y.m), x.e + y.e, FALSE)

\* x >= y
FGe(x, y) ==
    LET d == FSub(x, y) IN FIsZero(d) \/ d.sign = 1

\* x <= y
FLe(x, y) == FGe(y, x)

\* round(x, 2), as the integer number of hundredths of the result
Round2(x) ==
    IF FIsZero(x) THEN 0
    ELSE LET N == BNMulSmall(x.m, 100)
         IN  IF x.e >= 0 THEN x.sign * BNToInt(BNShl(N, x.e))
             ELSE LET k    == -x.e
                      q    == BNShr(N, k)
                      rem  == BNSub(N, BNShl(q, k))
                      half == BNShl(<<1>>, k - 1)
                      c    == BNCmp(rem, half)
                      up   == c > 0 \/ (c = 0 /\ BNIsOdd(q))
                  IN  x.sign * (BNToInt(q) + IF up THEN 1 ELSE 0)

(***************************************************************************)
(* analyze_traffic_series                                                  *)
(***************************************************************************)
Window == 7

RECURSIVE SeqSum(_)
SeqSum(s) == IF s = <<>> THEN 0 ELSE Head(s) + SeqSum(Tail(s))

\* series[-Window:]
last_7(s) == SubSeq(s, IF Len(s) > Window THEN Len(s) - Window + 1 ELSE 1, Len(s))

\* series[-2*Window:-Window]
previous_7(s) ==
    IF Len(s) <= Window THEN <<>>
    ELSE SubSeq(s, IF Len(s) > 2 * Window THEN Len(s) - 2 * Window + 1 ELSE 1,
                Len(s) - Window)

\* statistics.fmean: the exact sum, divided as floats
fmean(s) == FDiv(FFromInt(SeqSum(s)), FFromInt(Len(s)))

\* A variant that reports growth from a zero baseline as 100 percent.
change_pct_zero_baseline_growth(last_7_avg, previous_7_avg) ==
    IF FIsZero(previous_7_avg)
    THEN (IF FIsZero(last_7_avg) THEN FZero ELSE FFromInt(100))
    ELSE FMul(FDiv(FSub(last_7_avg, previous_7_avg), previous_7_avg), FFromInt(100))

change_pct(last_7_avg, previous_7_avg) ==
    IF FIsZero(previous_7_avg) THEN FZero
    ELSE FMul(FDiv(FSub(last_7_avg, previous_7_avg), previous_7_avg), FFromInt(100))

trend(pct) ==
    IF FLe(pct, FFromInt(-5)) THEN "down"
    ELSE IF FGe(pct, FFromInt(5)) THEN "up"
    ELSE "stable"

analyze_traffic_series(s) ==
    IF s = <<>>
    THEN [available |-> FALSE, trend |-> "unknown",
          last_7_avg |-> 0, previous_7_avg |-> 0, change_pct |-> 0]
    ELSE LET last_7_avg     == fmean(last_7(s))
             previous_7_avg == IF previous_7(s) # <<>> THEN fmean(previous_7(s))
                               ELSE last_7_avg
             pct            == change_pct(last_7_avg, previous_7_avg)
         IN  [available |-> TRUE, trend |-> trend(pct),
              last_7_avg |-> Round2(last_7_avg),
              previous_7_avg |-> Round2(previous_7_avg),
              change_pct |-> Round2(pct)]

(***************************************************************************)
(* Post Records, the State Mapping and detect_changes                      *)
(***************************************************************************)
Ids    == {"1", "2"}
Stamps == {"2026-01-10T10:00:00", "2026-01-11T10:00:00"}

\* A dict with string keys is a function on the set of its keys.
EmptyDict == [k \in {} |-> ""]

DictSet(d, k, v) == [x \in DOMAIN d \cup {k} |-> IF x = k THEN v ELSE d[x]]

\* Every State Mapping over Ids: what a state file can hold.
StateMappings == UNION {[S -> Stamps] : S \in SUBSET Ids}

\* {**post, "change_type": t}
WithChangeType(post, t) ==
    [id |-> post.id, title |-> post.title, modified |-> post.modified,
     link |-> post.link, change_type |-> t]

\* A variant that puts each new record in front of the earlier ones.
RECURSIVE detect_loop_prepending(_, _, _)
detect_loop_prepending(prior_state, posts_left, changes_so_far) ==
    IF posts_left = <<>> THEN changes_so_far
    ELSE LET post == Head(posts_left)
         IN  detect_loop_prepending(prior_state, Tail(posts_left),
                 IF post.id \notin DOMAIN prior_state
                 THEN <<WithChangeType(post, "new")>> \o changes_so_far
                 ELSE IF prior_state[post.id] # post.modified
                 THEN <<WithChangeType(post, "updated")>> \o changes_so_far
                 ELSE changes_so_far)

detect_changes_prepending(prior_state, post_list) ==
    detect_loop_prepending(prior_state, post_list, <<>>)

\* A variant that tags every changed post "new".
RECURSIVE detect_loop_all_new(_, _, _)
detect_loop_all_new(prior_state, posts_left, changes_so_far) ==
    IF posts_left = <<>> THEN changes_so_far
    ELSE LET post == Head(posts_left)
         IN  detect_loop_all_new(prior_state, Tail(posts_left),
                 IF post.id \notin DOMAIN prior_state
                    \/ prior_state[post.id] # post.modified
                 THEN Append(changes_so_far, WithChangeType(post, "new"))
                 ELSE changes_so_far)

detect_changes_all_new(prior_state, post_list) ==
    detect_loop_all_new(prior_state, post_list, <<>>)

RECURSIVE detect_loop(_, _, _)
detect_loop(prior_state, posts_left, changes_so_far) ==
    IF posts_left = <<>> THEN changes_so_far
    ELSE LET post == Head(posts_left)
         IN  detect_loop(prior_state, Tail(posts_left),
                 IF post.id \notin DOMAIN prior_state
                 THEN Append(changes_so_far, WithChangeType(post, "new"))
                 ELSE IF prior_state[post.id] # post.modified
                 THEN Append(changes_so_far, WithChangeType(post, "updated"))
                 ELSE changes_so_far)

detect_changes(prior_state, post_list) == detect_loop(prior_state, post_list, <<>>)

(***************************************************************************)
(* build_prompt.  A text is the sequence of its pieces: the literal        *)
(* fragments of the format strings and the formatted values; the line      *)
(* separator "\n" that join puts between lines is a piece of its own.      *)
(***************************************************************************)
NL == "\n"

\* d.get(k, default)
Get(d, k, default) == IF k \in DOMAIN d THEN d[k] ELSE default

\* str(x) of a float that round(x, 2) returned, given in hundredths
FormatFloat(h) ==
    LET a  == IF h < 0 THEN -h ELSE h
        fr == a % 100
    IN  (IF h < 0 THEN "-" ELSE "") \o ToString(a \div 100) \o "."
        \o (IF fr % 10 = 0 THEN ToString(fr \div 10)
            ELSE IF fr < 10 THEN "0" \o ToString(fr)
            ELSE ToString(fr))

traffic_details(metrics_arg) ==
    LET traffic == Get(metrics_arg, "traffic", EmptyDict)
    IN  <<"Traffic: trend=", Get(traffic, "trend", "unknown"),
          ", last7_avg=",
          IF "last_7_avg" \in DOMAIN traffic THEN FormatFloat(traffic.last_7_avg) ELSE "0",
          ", prev7_avg=",
          IF "previous_7_avg" \in DOMAIN traffic
          THEN FormatFloat(traffic.previous_7_avg) ELSE "0",
          ", change=",
          IF "change_pct" \in DOMAIN traffic THEN FormatFloat(traffic.change_pct) ELSE "0",
          "% across ",
          IF "traffic_samples" \in DOMAIN metrics_arg
          THEN ToString(metrics_arg.traffic_samples) ELSE "0",
          " samples.">>

UnavailableNotice ==
    "Traffic: unavailable (provide --traffic-endpoint to enable visit trend analysis)."

traffic_line(metrics_arg) ==
    LET traffic == Get(metrics_arg, "traffic", EmptyDict)
    IN  IF ~Get(traffic, "available", FALSE) THEN <<UnavailableNotice>>
        ELSE traffic_details(metrics_arg)

Count(metrics_arg, k) == IF k \in DOMAIN metrics_arg THEN ToString(metrics_arg[k]) ELSE "0"

header_lines(site_url, metrics_arg) ==
    << <<"WordPress site: ", site_url>>,
       <<"You are monitoring content changes.">>,
       <<"Summarize what changed, assess traffic/health implications, and ",
         "provide 3 operational recommendations.">>,
       <<>>,
       <<"Site metrics snapshot:">>,
       <<"- Posts: ", Count(metrics_arg, "post_count")>>,
       <<"- Pages: ", Count(metrics_arg, "page_count")>>,
       <<"- Comments: ", Count(metrics_arg, "comment_count")>>,
       <<"- ">> \o traffic_line(metrics_arg),
       <<>>,
       <<"Changed posts:">> >>

\* A variant of the change line that leaves the link out.
change_line_without_link(item) ==
    <<"- [", item.change_type, "] ", item.title, " (", item.modified, ")">>

change_line(item) ==
    <<"- [", item.change_type, "] ", item.title, " (", item.modified, ") ", item.link>>

RECURSIVE change_lines(_)
change_lines(change_list) ==
    IF change_list = <<>> THEN <<>>
    ELSE <<change_line(Head(change_list))>> \o change_lines(Tail(change_list))

\* "\n".join(lines)
RECURSIVE Join(_)
Join(lines) ==
    IF lines = <<>> THEN <<>>
    ELSE IF Len(lines) = 1 THEN lines[1]
    ELSE lines[1] \o <<NL>> \o Join(Tail(lines))

build_prompt(site_url, change_list, metrics_arg) ==
    Join(header_lines(site_url, metrics_arg) \o change_lines(change_list))

(***************************************************************************)
(* SpecTraffic: analyze_traffic_series applied to a series made of up to   *)
(* three runs of equal daily counts.                                       *)
(***************************************************************************)
MaxRun == 7
Visits == {0, 100, 105, 120}

Rep(v, n) == [i \in 1..n |-> v]

SeriesInputs ==
    {Rep(a, i) \o Rep(b, j) \o Rep(c, k) :
        <<a, b, c>> \in Visits \X Visits \X Visits,
        <<i, j, k>> \in (0..MaxRun) \X (0..MaxRun) \X (0..MaxRun)}

DetectIdle ==
    /\ d_previous_state = EmptyDict
    /\ d_posts = <<>>
    /\ d_changes = <<>>
    /\ dpc = "off"

TrafficIdle ==
    /\ series = <<>>
    /\ analysis = "none"
    /\ tpc = "off"

PromptIdle ==
    /\ b_changes = <<>>
    /\ b_metrics = EmptyDict
    /\ b_prompt = <<>>
    /\ bpc = "off"

NoRun == [saved |-> FALSE, posts |-> <<>>]

RunIdle ==
    /\ state_file = [exists |-> FALSE, text |-> <<>>]
    /\ pc = "off"
    /\ use_claude = FALSE
    /\ api_key = "None"
    /\ previous_state = EmptyDict
    /\ posts = <<>>
    /\ metrics = EmptyDict
    /\ changes = <<>>
    /\ prompt = <<>>
    /\ summary = ""
    /\ outcome = "none"
    /\ summarizer_calls = 0
    /\ writes = 0
    /\ last_run = NoRun

TrafficInit ==
    /\ series \in SeriesInputs
    /\ analysis = "none"
    /\ tpc = "call"
    /\ DetectIdle
    /\ PromptIdle
    /\ RunIdle

Analyze ==
    /\ tpc = "call"
    /\ analysis' = analyze_traffic_series(series)
    /\ tpc' = "done"
    /\ UNCHANGED <<series, dvars, bvars, rvars>>

TrafficNext == Analyze

SpecTraffic == TrafficInit /\ [][TrafficNext]_vars

(***************************************************************************)
(* SpecDetect: detect_changes applied to every previous state and every    *)
(* post list of up to MaxDetectPosts posts.                                *)
(***************************************************************************)
MaxDetectPosts == 2
Titles == {"Updated Post", "New Post"}
Links  == {"https://example.com/updated", "https://example.com/new"}

PostRecords == [id : Ids, title : Titles, modified : Stamps, link : Links]

SeqsUpTo(S, n) == UNION {[1..k -> S] : k \in 0..n}

DetectInit ==
    /\ d_previous_state \in StateMappings
    /\ d_posts \in SeqsUpTo(PostRecords, MaxDetectPosts)
    /\ d_changes = <<>>
    /\ dpc = "call"
    /\ TrafficIdle
    /\ PromptIdle
    /\ RunIdle

Detect ==
    /\ dpc = "call"
    /\ d_changes' = detect_changes(d_previous_state, d_posts)
    /\ dpc' = "done"
    /\ UNCHANGED <<d_previous_state, d_posts, tvars, bvars, rvars>>

DetectNext == Detect

SpecDetect == DetectInit /\ [][DetectNext]_vars

(***************************************************************************)
(* Properties of analyze_traffic_series, under SpecTraffic                 *)
(***************************************************************************)
\* The trend of the exact percentage change of mean(last_7) over
\* mean(previous_7), in integer arithmetic: with S1/n1 and S2/n2 the two means,
\* the change is >= 5 iff (S1*n2 - S2*n1) * 100 >= 5 * S2*n1.
ExactTrend(s) ==
    LET S1 == SeqSum(last_7(s))
        n1 == Len(last_7(s))
        S2 == SeqSum(previous_7(s))
        n2 == Len(previous_7(s))
    IN  IF n2 = 0 \/ S2 = 0 THEN "stable"
        ELSE IF (S1 * n2 - S2 * n1) * 100 >= 5 * S2 * n1 THEN "up"
        ELSE IF (S1 * n2 - S2 * n1) * 100 <= -5 * S2 * n1 THEN "down"
        ELSE "stable"

TestSeries == Rep(100, Window) \o Rep(120, Window)

\* C7: for every non-empty series the trend is "up" exactly when the percentage
\* change of mean(last_7) over mean(previous_7) is >= 5, "down" exactly when it
\* is <= -5 and "stable" otherwise; seven 100s then seven 120s give trend "up",
\* change 20, last average 120 and previous average 100.
C7_TrendIsExactBoundaryInclusive ==
    (tpc = "done" /\ series # <<>>) =>
        /\ analysis.trend = ExactTrend(series)
        /\ series = TestSeries =>
               /\ analysis.trend = "up"
               /\ analysis.change_pct = 2000
               /\ analysis.last_7_avg = 12000
               /\ analysis.previous_7_avg = 10000

\* C8: whenever the previous window is all zeros and the last window is not,
\* the result is available with change_pct 0 and trend "stable".
C8_ZeroBaselineIsStable ==
    (/\ tpc = "done"
     /\ previous_7(series) # <<>>
     /\ SeqSum(previous_7(series)) = 0
     /\ SeqSum(last_7(series)) # 0) =>
        /\ analysis.available = TRUE
        /\ analysis.change_pct = 0
        /\ analysis.trend = "stable"

C8_Witness ==
    /\ tpc = "done"
    /\ Len(previous_7(series)) = Window
    /\ SeqSum(previous_7(series)) = 0
    /\ analysis.last_7_avg = 12000
    /\ analysis.change_pct = 0

(***************************************************************************)
(* Properties of detect_changes, under SpecDetect                          *)
(***************************************************************************)
Range(s) == {s[i] : i \in DOMAIN s}

IsNew(prev, post)       == post.id \notin DOMAIN prev
IsUpdated(prev, post)   == post.id \in DOMAIN prev /\ prev[post.id] # post.modified
IsUnchanged(prev, post) == post.id \in DOMAIN prev /\ prev[post.id] = post.modified

\* r is the Change Record of post, tagged t
IsRecordOf(r, post, t) ==
    /\ DOMAIN r = {"id", "title", "modified", "link", "change_type"}
    /\ r.id = post.id
    /\ r.title = post.title
    /\ r.modified = post.modified
    /\ r.link = post.link
    /\ r.change_type = t

\* C1: a post absent from the previous mapping yields a "new" record, a post
\* present with a different modified value an "updated" record, a post present
\* with the same value no record; no other records are produced, and each
\* record carries the post's id, title, modified and link.
C1_DetectClassifies ==
    dpc = "done" =>
        /\ \A k \in DOMAIN d_posts :
              /\ IsNew(d_previous_state, d_posts[k]) =>
                     \E r \in Range(d_changes) : IsRecordOf(r, d_posts[k], "new")
              /\ IsUpdated(d_previous_state, d_posts[k]) =>
                     \E r \in Range(d_changes) : IsRecordOf(r, d_posts[k], "updated")
              /\ IsUnchanged(d_previous_state, d_posts[k]) =>
                     \A r \in Range(d_changes) :
                         ~(r.id = d_posts[k].id /\ r.modified = d_posts[k].modified)
        /\ \A r \in Range(d_changes) :
              \E k \in DOMAIN d_posts :
                  \/ IsNew(d_previous_state, d_posts[k]) /\ IsRecordOf(r, d_posts[k], "new")
                  \/ IsUpdated(d_previous_state, d_posts[k])
                        /\ IsRecordOf(r, d_posts[k], "updated")
        /\ Len(d_changes) =
              Cardinality({k \in DOMAIN d_posts : ~IsUnchanged(d_previous_state, d_posts[k])})

C1_Witness ==
    /\ dpc = "done"
    /\ Len(d_posts) = 2
    /\ IsUpdated(d_previous_state, d_posts[1])
    /\ IsNew(d_previous_state, d_posts[2])
    /\ Len(d_changes) = 2
    /\ d_changes[1].change_type = "updated"
    /\ d_changes[2].change_type = "new"

\* The Post Record a Change Record was made from
PostOf(r) == [id |-> r.id, title |-> r.title, modified |-> r.modified, link |-> r.link]

\* C6: the Change Records are a subsequence of the input posts: there is a
\* strictly increasing map from record positions to post positions.
C6_ChangesInInputOrder ==
    dpc = "done" =>
        \E f \in [DOMAIN d_changes -> DOMAIN d_posts] :
            /\ \A i \in DOMAIN d_changes : PostOf(d_changes[i]) = d_posts[f[i]]
            /\ \A i, j \in DOMAIN d_changes : i < j => f[i] < f[j]

C6_Witness ==
    /\ dpc = "done"
    /\ Len(d_changes) = 2
    /\ Len(d_posts) = 2
    /\ d_changes[1] # d_changes[2]
    /\ d_changes[1].id = "2"
    /\ d_changes[2].id = "1"
    /\ PostOf(d_changes[1]) = d_posts[1]

(***************************************************************************)
(* fetch_site_metrics: the snapshots it can return                         *)
(***************************************************************************)
TrafficSeriesFetched == {<<>>, TestSeries}
CountsFetched == {<<11, 4, 27>>}

fetch_site_metrics(counts, traffic_series) ==
    [post_count |-> counts[1], page_count |-> counts[2], comment_count |-> counts[3],
     traffic |-> analyze_traffic_series(traffic_series),
     traffic_samples |-> Len(traffic_series)]

MetricsSnapshots ==
    {fetch_site_metrics(c, s) : c \in CountsFetched, s \in TrafficSeriesFetched}

(***************************************************************************)
(* The state file: save_state and load_state                               *)
(***************************************************************************)
\* The keys of Ids in the order sort_keys=True puts them
SortedIds == <<"1", "2">>

\* json.dumps(state, indent=2, sort_keys=True): the members, in key order
RECURSIVE dumps_from(_, _)
dumps_from(state, keys) ==
    IF keys = <<>> THEN <<>>
    ELSE (IF Head(keys) \in DOMAIN state THEN <<<<Head(keys), state[Head(keys)]>>>>
          ELSE <<>>)
         \o dumps_from(state, Tail(keys))

\* A variant that leaves the file as it is.
save_state_skipped(file, state) == file

save_state(file, state) == [exists |-> TRUE, text |-> dumps_from(state, SortedIds)]

\* {str(k): str(v) for k, v in raw.items()}
RECURSIVE dict_of(_)
dict_of(members) ==
    IF members = <<>> THEN EmptyDict
    ELSE DictSet(dict_of(SubSeq(members, 1, Len(members) - 1)),
                 members[Len(members)][1], members[Len(members)][2])

\* A variant that reads only the first member of the object.
load_state_first_member(file) ==
    IF ~file.exists \/ file.text = <<>> THEN EmptyDict ELSE dict_of(<<file.text[1]>>)

load_state(file) == IF ~file.exists THEN EmptyDict ELSE dict_of(file.text)

(***************************************************************************)
(* run_monitor                                                             *)
(***************************************************************************)
\* A variant that keeps the previous state's entries (a merge).
RECURSIVE new_state_merged(_)
new_state_merged(post_list) ==
    IF post_list = <<>> THEN previous_state
    ELSE DictSet(new_state_merged(SubSeq(post_list, 1, Len(post_list) - 1)),
                 post_list[Len(post_list)].id, post_list[Len(post_list)].modified)

\* {post["id"]: post["modified"] for post in posts}
RECURSIVE new_state(_)
new_state(post_list) ==
    IF post_list = <<>> THEN EmptyDict
    ELSE DictSet(new_state(SubSeq(post_list, 1, Len(post_list) - 1)),
                 post_list[Len(post_list)].id, post_list[Len(post_list)].modified)

\* A variant that summarizes whenever there are changes.
wants_summary_ignoring_flag(change_list, flag) == change_list # <<>>

\* if changes and use_claude
wants_summary(change_list, flag) == change_list # <<>> /\ flag

\* A variant that tests only for None.
no_api_key_none_only(key) == key = "None"

\* if not api_key: api_key is None ("None" here) or the empty string
no_api_key(key) == key = "None" \/ key = ""

(***************************************************************************)
(* SpecPrompt: build_prompt applied to every list of up to                 *)
(* MaxPromptChanges Change Records and a metrics dict, complete or not.    *)
(***************************************************************************)
MaxPromptChanges == 2
SiteUrl == "https://example.com"

ChangeRecords ==
    {WithChangeType(post, ct) :
        post \in {r \in PostRecords : r.id = "1"}, ct \in {"new", "updated"}}

PromptMetrics ==
    MetricsSnapshots
    \cup {[post_count |-> 10, page_count |-> 2, comment_count |-> 5,
           traffic_samples |-> 14,
           traffic |-> [available |-> TRUE, trend |-> "down", last_7_avg |-> 8850,
                        previous_7_avg |-> 12000, change_pct |-> -2625]],
          [post_count |-> 3],
          [traffic |-> [available |-> TRUE]],
          EmptyDict}

PromptInit ==
    /\ b_changes \in SeqsUpTo(ChangeRecords, MaxPromptChanges)
    /\ b_metrics \in PromptMetrics
    /\ b_prompt = <<>>
    /\ bpc = "call"
    /\ TrafficIdle
    /\ DetectIdle
    /\ RunIdle

BuildPrompt ==
    /\ bpc = "call"
    /\ b_prompt' = build_prompt(SiteUrl, b_changes, b_metrics)
    /\ bpc' = "done"
    /\ UNCHANGED <<b_changes, b_metrics, tvars, dvars, rvars>>

PromptNext == BuildPrompt

SpecPrompt == PromptInit /\ [][PromptNext]_vars

(***************************************************************************)
(* Properties of build_prompt, under SpecPrompt                            *)
(***************************************************************************)
\* text.split("\n"): the lines of a text
RECURSIVE SplitLines(_, _)
SplitLines(text, current) ==
    IF text = <<>> THEN <<current>>
    ELSE IF Head(text) = NL THEN <<current>> \o SplitLines(Tail(text), <<>>)
    ELSE SplitLines(Tail(text), Append(current, Head(text)))

Lines(text) == SplitLines(text, <<>>)

IsTrafficLine(line) ==
    Len(line) >= 2 /\ line[1] = "- "
    /\ (line[2] = "Traffic: trend=" \/ line[2] = UnavailableNotice)

TrafficAvailable(m) ==
    "traffic" \in DOMAIN m /\ "available" \in DOMAIN m.traffic /\ m.traffic.available

\* C9: after the "Changed posts:" header the prompt holds exactly one line per
\* Change Record, in input order, "- [<change_type>] <title> (<modified>) <link>";
\* the metrics block with the three counts and exactly one traffic line (the
\* trend sentence when traffic is available, else the notice) is always there.
C9_PromptListsChangesAndMetrics ==
    bpc = "done" =>
        LET lines == Lines(b_prompt)
            hs    == {i \in DOMAIN lines : lines[i] = <<"Changed posts:">>}
        IN  /\ Cardinality(hs) = 1
            /\ \A h \in hs :
                  /\ Len(lines) = h + Len(b_changes)
                  /\ \A i \in DOMAIN b_changes :
                        lines[h + i] =
                            <<"- [", b_changes[i].change_type, "] ", b_changes[i].title,
                              " (", b_changes[i].modified, ") ", b_changes[i].link>>
                  /\ \E s \in 1..(h - 1) :
                        /\ lines[s] = <<"Site metrics snapshot:">>
                        /\ s + 4 < h
                        /\ Len(lines[s + 1]) = 2 /\ lines[s + 1][1] = "- Posts: "
                        /\ Len(lines[s + 2]) = 2 /\ lines[s + 2][1] = "- Pages: "
                        /\ Len(lines[s + 3]) = 2 /\ lines[s + 3][1] = "- Comments: "
                        /\ IsTrafficLine(lines[s + 4])
                        /\ (lines[s + 4][2] = "Traffic: trend=") <=> TrafficAvailable(b_metrics)
            /\ Cardinality({i \in DOMAIN lines : IsTrafficLine(lines[i])}) = 1

C9_Witness ==
    /\ bpc = "done"
    /\ Len(b_changes) = 2
    /\ b_changes[1].change_type = "updated"
    /\ b_changes[2].change_type = "new"
    /\ b_changes[1].title # b_changes[2].title
    /\ TrafficAvailable(b_metrics)
    /\ Len(Lines(b_prompt)) = 13

(***************************************************************************)
(* Spec: runs of run_monitor, one after the other, on one state file.      *)
(* The fetchers and the summarizer are the injected callables: each        *)
(* returns a value or raises.                                              *)
(***************************************************************************)
MaxPosts == 2
ApiKeys == {"None", "", "test-key"}
Summaries == {"Summary ready.", ""}

\* The posts the fetcher returns: title and link go with the id
RunPostRecords ==
    {r \in PostRecords :
        /\ (r.id = "1") <=> (r.title = "Updated Post")
        /\ (r.id = "1") <=> (r.link = "https://example.com/updated")}

PostLists == SeqsUpTo(RunPostRecords, MaxPosts)

Init ==
    /\ RunIdle
    /\ TrafficIdle
    /\ DetectIdle
    /\ PromptIdle

\* run_monitor is called: load_state
StartRun ==
    /\ pc \in {"off", "done"}
    /\ \E flag \in BOOLEAN, key \in ApiKeys :
          /\ use_claude' = flag
          /\ api_key' = key
    /\ previous_state' = load_state(state_file)
    /\ last_run' = [saved |-> writes > 0, posts |-> IF writes > 0 THEN posts ELSE <<>>]
    /\ posts' = <<>>
    /\ metrics' = EmptyDict
    /\ changes' = <<>>
    /\ prompt' = <<>>
    /\ summary' = ""
    /\ outcome' = "none"
    /\ summarizer_calls' = 0
    /\ writes' = 0
    /\ pc' = "fetch_posts"
    /\ UNCHANGED <<state_file, tvars, dvars, bvars>>

FetchPosts ==
    /\ pc = "fetch_posts"
    /\ posts' \in PostLists
    /\ pc' = "fetch_metrics"
    /\ UNCHANGED <<state_file, use_claude, api_key, previous_state, metrics, changes,
                   prompt, summary, outcome, summarizer_calls, writes, last_run,
                   tvars, dvars, bvars>>

FetchPostsRaises ==
    /\ pc = "fetch_posts"
    /\ outcome' = "FetchError"
    /\ pc' = "done"
    /\ UNCHANGED <<state_file, use_claude, api_key, previous_state, posts, metrics,
                   changes, prompt, summary, summarizer_calls, writes, last_run,
                   tvars, dvars, bvars>>

FetchMetrics ==
    /\ pc = "fetch_metrics"
    /\ metrics' \in MetricsSnapshots
    /\ pc' = "detect"
    /\ UNCHANGED <<state_file, use_claude, api_key, previous_state, posts, changes,
                   prompt, summary, outcome, summarizer_calls, writes, last_run,
                   tvars, dvars, bvars>>

FetchMetricsRaises ==
    /\ pc = "fetch_metrics"
    /\ outcome' = "FetchError"
    /\ pc' = "done"
    /\ UNCHANGED <<state_file, use_claude, api_key, previous_state, posts, metrics,
                   changes, prompt, summary, summarizer_calls, writes, last_run,
                   tvars, dvars, bvars>>

\* detect_changes, then the new state is built and saved
DetectAndSave ==
    /\ pc = "detect"
    /\ changes' = detect_changes(previous_state, posts)
    /\ state_file' = save_state(state_file, new_state(posts))
    /\ writes' = writes + 1
    /\ pc' = "summary"
    /\ UNCHANGED <<use_claude, api_key, previous_state, posts, metrics, prompt,
                   summary, outcome, summarizer_calls, last_run, tvars, dvars, bvars>>

\* no changes, or summarization disabled: return with the empty summary
ReturnWithoutSummary ==
    /\ pc = "summary"
    /\ ~wants_summary(changes, use_claude)
    /\ outcome' = "returned"
    /\ pc' = "done"
    /\ UNCHANGED <<state_file, use_claude, api_key, previous_state, posts, metrics,
                   changes, prompt, summary, summarizer_calls, writes, last_run,
                   tvars, dvars, bvars>>

\* raise ValueError("ANTHROPIC_API_KEY is required ...")
RaiseAuthError ==
    /\ pc = "summary"
    /\ wants_summary(changes, use_claude)
    /\ no_api_key(api_key)
    /\ outcome' = "AuthError"
    /\ pc' = "done"
    /\ UNCHANGED <<state_file, use_claude, api_key, previous_state, posts, metrics,
                   changes, prompt, summary, summarizer_calls, writes, last_run,
                   tvars, dvars, bvars>>

\* build_prompt, and the summarizer is called
CallSummarizer ==
    /\ pc = "summary"
    /\ wants_summary(changes, use_claude)
    /\ ~no_api_key(api_key)
    /\ prompt' = build_prompt(SiteUrl, changes, metrics)
    /\ summarizer_calls' = summarizer_calls + 1
    /\ pc' = "summarizer"
    /\ UNCHANGED <<state_file, use_claude, api_key, previous_state, posts, metrics,
                   changes, summary, outcome, writes, last_run, tvars, dvars, bvars>>

SummarizerReturns ==
    /\ pc = "summarizer"
    /\ summary' \in Summaries
    /\ outcome' = "returned"
    /\ pc' = "done"
    /\ UNCHANGED <<state_file, use_claude, api_key, previous_state, posts, metrics,
                   changes, prompt, summarizer_calls, writes, last_run,
                   tvars, dvars, bvars>>

SummarizerRaises ==
    /\ pc = "summarizer"
    /\ outcome' = "SummarizerError"
    /\ pc' = "done"
    /\ UNCHANGED <<state_file, use_claude, api_key, previous_state, posts, metrics,
                   changes, prompt, summary, summarizer_calls, writes, last_run,
                   tvars, dvars, bvars>>

Next ==
    \/ StartRun
    \/ FetchPosts
    \/ FetchPostsRaises
    \/ FetchMetrics
    \/ FetchMetricsRaises
    \/ DetectAndSave
    \/ ReturnWithoutSummary
    \/ RaiseAuthError
    \/ CallSummarizer
    \/ SummarizerReturns
    \/ SummarizerRaises

Spec == Init /\ [][Next]_vars

(***************************************************************************)
(* Properties of run_monitor, under Spec                                   *)
(***************************************************************************)
IdsOf(post_list) == {post_list[i].id : i \in DOMAIN post_list}

Last(S) == CHOOSE i \in S : \A j \in S : j <= i

\* {post.id -> post.modified}: each id with the value of its last occurrence
SnapshotOf(post_list) ==
    [k \in IdsOf(post_list) |->
        post_list[Last({i \in DOMAIN post_list : post_list[i].id = k})].modified]

\* The file exists and its object has exactly the members of mapping
FileHolds(file, mapping) ==
    /\ file.exists
    /\ Len(file.text) = Cardinality(DOMAIN mapping)
    /\ {file.text[i][1] : i \in DOMAIN file.text} = DOMAIN mapping
    /\ \A i \in DOMAIN file.text : file.text[i][2] = mapping[file.text[i][1]]

\* C2: once a run has saved, the state file holds exactly the snapshot
\* {post.id -> post.modified} of the posts fetched in that run, and no id that
\* only the previous state had is a key any more.
C2_StateFileIsSnapshot ==
    writes > 0 =>
        /\ FileHolds(state_file, SnapshotOf(posts))
        /\ \A k \in DOMAIN previous_state \ IdsOf(posts) :
              \A i \in DOMAIN state_file.text : state_file.text[i][1] # k

C2_Witness ==
    /\ pc = "done"
    /\ writes > 0
    /\ DOMAIN previous_state = {"1", "2"}
    /\ IdsOf(posts) = {"1"}
    /\ previous_state["1"] # posts[1].modified

\* C3: the summarizer is called, and the credential check is made, only after
\* the one save of the run; when either fails the state file still holds the
\* new snapshot, and it was written once.
C3_SavedBeforeSummaryAndKept ==
    (summarizer_calls > 0 \/ outcome \in {"AuthError", "SummarizerError"}) =>
        /\ writes = 1
        /\ FileHolds(state_file, SnapshotOf(posts))

C3_Witness ==
    /\ pc = "done"
    /\ outcome = "SummarizerError"
    /\ summarizer_calls = 1
    /\ previous_state # SnapshotOf(posts)
    /\ FileHolds(state_file, SnapshotOf(posts))

\* The Change Records of the changed posts, in order
ExpectedChanges(prev, post_list) ==
    LET changed == SelectSeq(post_list, LAMBDA q : ~IsUnchanged(prev, q))
    IN  [i \in DOMAIN changed |->
            [id |-> changed[i].id, title |-> changed[i].title,
             modified |-> changed[i].modified, link |-> changed[i].link,
             change_type |-> IF IsNew(prev, changed[i]) THEN "new" ELSE "updated"]]

\* C4: a run with use_claude false never calls the summarizer and returns the
\* empty summary, whatever the state, the posts and the api_key; what a run
\* returns as changes and metrics and what it saves depend on the previous
\* state and the fetches only, not on use_claude.
C4_DisabledNeverSummarizes ==
    /\ ~use_claude =>
          /\ summarizer_calls = 0
          /\ summary = ""
          /\ prompt = <<>>
          /\ outcome \in {"none", "returned", "FetchError"}
          /\ (pc = "done" /\ writes > 0) => outcome = "returned"
    /\ (pc = "done" /\ outcome = "returned") =>
          /\ changes = ExpectedChanges(previous_state, posts)
          /\ metrics \in MetricsSnapshots
          /\ FileHolds(state_file, SnapshotOf(posts))

C4_Witness ==
    /\ pc = "done"
    /\ ~use_claude
    /\ api_key = "test-key"
    /\ Len(changes) = 2
    /\ outcome = "returned"
    /\ summary = ""

\* C5 as stated: every run with use_claude true and no credential that gets past
\* the fetches fails with the AuthError, changes or not.
C5_NoCredentialAlwaysFails ==
    (pc = "done" /\ use_claude /\ api_key \in {"None", ""} /\ writes > 0) =>
        /\ outcome = "AuthError"
        /\ summarizer_calls = 0

\* C5, amended: a run with use_claude true and no credential never calls the
\* summarizer; past the fetches it fails with the AuthError when changes were
\* detected, and returns the empty summary when none were.
C5_NoCredentialFailsWhenChanges ==
    (use_claude /\ api_key \in {"None", ""}) =>
        /\ summarizer_calls = 0
        /\ (pc = "done" /\ writes > 0) =>
              IF changes # <<>> THEN outcome = "AuthError"
              ELSE outcome = "returned" /\ summary = ""

C5_Witness ==
    /\ pc = "done"
    /\ use_claude
    /\ api_key = ""
    /\ changes # <<>>
    /\ outcome = "AuthError"

\* No id occurs in the list with two different modified values
OneStampPerId(post_list) ==
    \A i, j \in DOMAIN post_list :
        post_list[i].id = post_list[j].id => post_list[i].modified = post_list[j].modified

\* C10 as stated: a run that fetches the same post list as the run before it,
\* which saved, reports no changes, does not call the summarizer and leaves the
\* state file holding what the first run wrote, whatever the list.
C10_RerunIsIdempotent ==
    (last_run.saved /\ writes > 0 /\ posts = last_run.posts) =>
        /\ changes = <<>>
        /\ summarizer_calls = 0
        /\ FileHolds(state_file, previous_state)

\* C10, amended: the same, for the lists in which no id occurs with two
\* different modified values.
C10_RerunIsIdempotentOneStampPerId ==
    (last_run.saved /\ writes > 0 /\ posts = last_run.posts /\ OneStampPerId(posts)) =>
        /\ changes = <<>>
        /\ summarizer_calls = 0
        /\ FileHolds(state_file, previous_state)

C10_Witness ==
    /\ pc = "done"
    /\ last_run.saved
    /\ writes > 0
    /\ posts = last_run.posts
    /\ Len(posts) = 2
    /\ posts[1].id # posts[2].id
    /\ use_claude
    /\ api_key = "test-key"
    /\ outcome = "returned"

====
